---------------------------- MODULE Spec2Model ----------------------------
(***************************************************************************)
(* A model of the expense/income plugin (src/unnamed/part_000).  The file  *)
(* holds two variants of the plugin: the "nested" one (lines 1-379), which *)
(* stores notes under <root>/<year>/<year-month>/<year-month-day>/, and    *)
(* the "flat" one (lines 381-723), which stores them directly under the    *)
(* root.  Strings are TLA+ strings handled character by character, so the  *)
(* text the plugin formats and parses is the text the model formats and    *)
(* parses.  Numbers are decimal integers or NaN.                           *)
(***************************************************************************)
EXTENDS Integers, Sequences, FiniteSets, TLC

(***************************************************************************)
(* JavaScript string primitives the plugin uses.                           *)
(***************************************************************************)
Char(s, i) == SubSeq(s, i, i)

\* String.prototype.startsWith
StartsWith(s, p) == Len(p) <= Len(s) /\ SubSeq(s, 1, Len(p)) = p

\* String.prototype.indexOf from position i, 1-based; 0 when p does not occur
RECURSIVE IndexFrom(_, _, _)
IndexFrom(s, p, i) ==
    IF i + Len(p) - 1 > Len(s) THEN 0
    ELSE IF SubSeq(s, i, i + Len(p) - 1) = p THEN i
    ELSE IndexFrom(s, p, i + 1)

IndexOf(s, p) == IndexFrom(s, p, 1)

\* String.prototype.replace with a string pattern: the first occurrence only
ReplaceFirst(s, pat, rep) ==
    LET i == IndexOf(s, pat)
    IN  IF i = 0 THEN s
        ELSE SubSeq(s, 1, i - 1) \o rep \o SubSeq(s, i + Len(pat), Len(s))

\* String.prototype.replace with a global one-character regex (/:/g)
RECURSIVE ReplaceAll(_, _, _)
ReplaceAll(s, ch, rep) ==
    IF s = "" THEN ""
    ELSE (IF Char(s, 1) = ch THEN rep ELSE Char(s, 1))
         \o ReplaceAll(SubSeq(s, 2, Len(s)), ch, rep)

\* String.prototype.split with a non-empty string separator
RECURSIVE Split(_, _)
Split(s, sep) ==
    LET i == IndexOf(s, sep)
    IN  IF i = 0 THEN <<s>>
        ELSE <<SubSeq(s, 1, i - 1)>> \o Split(SubSeq(s, i + Len(sep), Len(s)), sep)

UpperLetters == "ABCDEFGHIJKLMNOPQRSTUVWXYZ"
LowerLetters == "abcdefghijklmnopqrstuvwxyz"

\* one character of `from` replaced by the character at its place in `to`
MapChar(c, from, to) ==
    LET i == IndexOf(from, c) IN IF i = 0 THEN c ELSE Char(to, i)

RECURSIVE MapString(_, _, _)
MapString(s, from, to) ==
    IF s = "" THEN ""
    ELSE MapChar(Char(s, 1), from, to) \o MapString(SubSeq(s, 2, Len(s)), from, to)

ToLowerCase(s) == MapString(s, UpperLetters, LowerLetters)
ToUpperCase(s) == MapString(s, LowerLetters, UpperLetters)

\* String.prototype.trim (spaces, tabs and line breaks)
IsSpace(c) == c \in {" ", "\t", "\n", "\r"}

RECURSIVE TrimStart(_)
TrimStart(s) ==
    IF s # "" /\ IsSpace(Char(s, 1)) THEN TrimStart(SubSeq(s, 2, Len(s))) ELSE s

RECURSIVE TrimEnd(_)
TrimEnd(s) ==
    IF s # "" /\ IsSpace(Char(s, Len(s))) THEN TrimEnd(SubSeq(s, 1, Len(s) - 1)) ELSE s

Trim(s) == TrimEnd(TrimStart(s))

DigitChars == "0123456789"
IsDigit(c) == c # "" /\ IndexOf(DigitChars, c) # 0
DigitVal(c) == IndexOf(DigitChars, c) - 1

\* the length of the longest prefix of s made of digits, at most max long
RECURSIVE DigitRun(_, _)
DigitRun(s, max) ==
    IF max = 0 \/ s = "" \/ ~IsDigit(Char(s, 1)) THEN 0
    ELSE 1 + DigitRun(SubSeq(s, 2, Len(s)), max - 1)

\* the value of a string of digits
RECURSIVE DigitsValue(_)
DigitsValue(s) ==
    IF s = "" THEN 0
    ELSE 10 * DigitsValue(SubSeq(s, 1, Len(s) - 1)) + DigitVal(Char(s, Len(s)))

\* Number.prototype.toString of a non-negative integer
RECURSIVE NatToString(_)
NatToString(n) ==
    IF n < 10 THEN Char(DigitChars, n + 1)
    ELSE NatToString(n \div 10) \o Char(DigitChars, (n % 10) + 1)

IntToString(n) == IF n < 0 THEN "-" \o NatToString(-n) ELSE NatToString(n)

\* String.prototype.padStart(2, '0')
PadStart2(s) == IF Len(s) < 2 THEN "0" \o s ELSE s

(***************************************************************************)
(* JavaScript numbers: an integer, or NaN.                                 *)
(***************************************************************************)
NaN == [nan |-> TRUE, v |-> 0]
Num(n) == [nan |-> FALSE, v |-> n]
NumNeg(a) == IF a.nan THEN NaN ELSE Num(-a.v)
NumAdd(a, b) == IF a.nan \/ b.nan THEN NaN ELSE Num(a.v + b.v)
NumToString(a) == IF a.nan THEN "NaN" ELSE IntToString(a.v)

\* parseFloat: leading white space, an optional sign, then the longest run of
\* digits; NaN when there is none (the model's amounts carry no fraction)
parseFloat(s) ==
    LET t    == TrimStart(s)
        sign == IF t # "" /\ Char(t, 1) \in {"-", "+"} THEN Char(t, 1) ELSE ""
        body == SubSeq(t, Len(sign) + 1, Len(t))
        n    == DigitRun(body, Len(body))
    IN  IF n = 0 THEN NaN
        ELSE IF sign = "-" THEN Num(-DigitsValue(SubSeq(body, 1, n)))
        ELSE Num(DigitsValue(SubSeq(body, 1, n)))

(***************************************************************************)
(* The transaction codec.                                                  *)
(***************************************************************************)
\* type.charAt(0).toUpperCase() + type.slice(1)
Capitalize(type) == ToUpperCase(Char(type, 1)) \o SubSeq(type, 2, Len(type))

\* the note body addTransaction builds (the template literal `content`)
NoteContent(type, amount, description, account, category) ==
    "## " \o Capitalize(type) \o "\n\n- Amount: "
    \o (IF type = "expense" THEN "-" ELSE "") \o amount
    \o "\n- Description: " \o description
    \o "\n- Account: " \o account
    \o "\n- Category: " \o category

\* lines.find(line => line.startsWith(prefix)): the index of the first such
\* line, 0 standing for undefined
RECURSIVE FindFrom(_, _, _)
FindFrom(lines, prefix, i) ==
    IF i > Len(lines) THEN 0
    ELSE IF StartsWith(lines[i], prefix) THEN i
    ELSE FindFrom(lines, prefix, i + 1)

FindLine(lines, prefix) == FindFrom(lines, prefix, 1)

\* parseTransaction's null
NoTransaction ==
    [null |-> TRUE, type |-> "", amount |-> NaN, description |-> "",
     account |-> "", category |-> ""]

\* parseTransaction without the toLowerCase of the header's remainder
parseTransactionKeepCase(content) ==
    LET lines           == Split(content, "\n")
        typeLine        == FindLine(lines, "## ")
        amountLine      == FindLine(lines, "- Amount:")
        descriptionLine == FindLine(lines, "- Description:")
        accountLine     == FindLine(lines, "- Account:")
        categoryLine    == FindLine(lines, "- Category:")
    IN  IF typeLine # 0 /\ amountLine # 0 /\ descriptionLine # 0
           /\ accountLine # 0 /\ categoryLine # 0
        THEN [null        |-> FALSE,
              type        |-> ReplaceFirst(lines[typeLine], "## ", ""),
              amount      |-> parseFloat(ReplaceFirst(lines[amountLine], "- Amount: ", "")),
              description |-> ReplaceFirst(lines[descriptionLine], "- Description: ", ""),
              account     |-> ReplaceFirst(lines[accountLine], "- Account: ", ""),
              category    |-> ReplaceFirst(lines[categoryLine], "- Category: ", "")]
        ELSE NoTransaction

parseTransaction(content) ==
    LET lines           == Split(content, "\n")
        typeLine        == FindLine(lines, "## ")
        amountLine      == FindLine(lines, "- Amount:")
        descriptionLine == FindLine(lines, "- Description:")
        accountLine     == FindLine(lines, "- Account:")
        categoryLine    == FindLine(lines, "- Category:")
    IN  IF typeLine # 0 /\ amountLine # 0 /\ descriptionLine # 0
           /\ accountLine # 0 /\ categoryLine # 0
        THEN [null        |-> FALSE,
              type        |-> ToLowerCase(ReplaceFirst(lines[typeLine], "## ", "")),
              amount      |-> parseFloat(ReplaceFirst(lines[amountLine], "- Amount: ", "")),
              description |-> ReplaceFirst(lines[descriptionLine], "- Description: ", ""),
              account     |-> ReplaceFirst(lines[accountLine], "- Account: ", ""),
              category    |-> ReplaceFirst(lines[categoryLine], "- Category: ", "")]
        ELSE NoTransaction

(***************************************************************************)
(* Dates.  A Date is an instant: whole seconds since 1970-01-01T00:00:00Z  *)
(* plus a millisecond part, or the Invalid Date.  The host's time zone is  *)
(* a fixed offset of tz minutes east of UTC.                               *)
(***************************************************************************)
SecondsPerDay == 24 * 60 * 60

InvalidDate == [valid |-> FALSE, s |-> 0, ms |-> 0]
DateAt(s, ms) == [valid |-> TRUE, s |-> s, ms |-> ms]

\* a >= b and a <= b on Dates; every comparison with the Invalid Date is false
DateGe(a, b) == a.valid /\ b.valid /\ (a.s > b.s \/ (a.s = b.s /\ a.ms >= b.ms))
DateLe(a, b) == a.valid /\ b.valid /\ (a.s < b.s \/ (a.s = b.s /\ a.ms <= b.ms))

IsLeapYear(y) == (y % 4 = 0 /\ y % 100 # 0) \/ y % 400 = 0

DaysInMonth(y, m) ==
    IF m = 2 THEN (IF IsLeapYear(y) THEN 29 ELSE 28)
    ELSE IF m \in {4, 6, 9, 11} THEN 30 ELSE 31

\* days from 1970-01-01 to the civil date y-m-d (proleptic Gregorian)
DaysFromCivil(y, m, d) ==
    LET yy  == IF m <= 2 THEN y - 1 ELSE y
        era == yy \div 400
        yoe == yy - era * 400
        mp  == IF m > 2 THEN m - 3 ELSE m + 9
        doy == (153 * mp + 2) \div 5 + d - 1
        doe == yoe * 365 + yoe \div 4 - yoe \div 100 + doy
    IN  era * 146097 + doe - 719468

\* the civil date of a day number
CivilFromDays(z) ==
    LET zz  == z + 719468
        era == zz \div 146097
        doe == zz - era * 146097
        yoe == (doe - doe \div 1460 + doe \div 36524 - doe \div 146096) \div 365
        doy == doe - (365 * yoe + yoe \div 4 - yoe \div 100)
        mp  == (5 * doy + 2) \div 153
        d   == doy - (153 * mp + 2) \div 5 + 1
        m   == IF mp < 10 THEN mp + 3 ELSE mp - 9
        y   == yoe + era * 400 + (IF m <= 2 THEN 1 ELSE 0)
    IN  [year |-> y, month |-> m, day |-> d]

\* the calendar fields of instant second s seen off minutes east of UTC
Fields(s, off) ==
    LET ls  == s + off * 60
        day == ls \div SecondsPerDay
        sod == ls % SecondsPerDay
        c   == CivilFromDays(day)
    IN  [year |-> c.year, month |-> c.month, day |-> c.day,
         hour |-> sod \div 3600, minute |-> (sod % 3600) \div 60, second |-> sod % 60]

Pad4(s) == IF Len(s) < 4 THEN SubSeq("0000", 1, 4 - Len(s)) \o s ELSE s
Pad3(s) == IF Len(s) < 3 THEN SubSeq("000", 1, 3 - Len(s)) \o s ELSE s

\* Date.prototype.getFullYear, getMonth (0-based) and getDate: local time
getFullYear(date, tz) == Fields(date.s, tz).year
getMonth(date, tz) == Fields(date.s, tz).month - 1
getDate(date, tz) == Fields(date.s, tz).day

\* Date.prototype.toISOString: YYYY-MM-DDTHH:mm:ss.sssZ, in UTC
toISOString(date) ==
    LET f == Fields(date.s, 0)
    IN  Pad4(IntToString(f.year)) \o "-" \o PadStart2(IntToString(f.month)) \o "-"
        \o PadStart2(IntToString(f.day)) \o "T" \o PadStart2(IntToString(f.hour)) \o ":"
        \o PadStart2(IntToString(f.minute)) \o ":" \o PadStart2(IntToString(f.second))
        \o "." \o Pad3(IntToString(date.ms)) \o "Z"

\* Date.prototype.toTimeString: HH:mm:ss GMT+hhmm, in local time
toTimeString(date, tz) ==
    LET f == Fields(date.s, tz)
        a == IF tz < 0 THEN -tz ELSE tz
    IN  PadStart2(IntToString(f.hour)) \o ":" \o PadStart2(IntToString(f.minute)) \o ":"
        \o PadStart2(IntToString(f.second)) \o " GMT" \o (IF tz < 0 THEN "-" ELSE "+")
        \o PadStart2(IntToString(a \div 60)) \o PadStart2(IntToString(a % 60))

\* new Date(value) for the value of a date input: "YYYY-MM-DD" is midnight
\* UTC of that day; anything else (the empty string, undefined) is invalid
NewDate(str) ==
    IF Len(str) = 10 /\ DigitRun(str, 4) = 4 /\ Char(str, 5) = "-"
       /\ DigitRun(SubSeq(str, 6, 7), 2) = 2 /\ Char(str, 8) = "-"
       /\ DigitRun(SubSeq(str, 9, 10), 2) = 2
    THEN LET y == DigitsValue(SubSeq(str, 1, 4))
             m == DigitsValue(SubSeq(str, 6, 7))
             d == DigitsValue(SubSeq(str, 9, 10))
         IN  IF m \in 1..12 /\ d \in 1..DaysInMonth(y, m)
             THEN DateAt(DaysFromCivil(y, m, d) * SecondsPerDay, 0)
             ELSE InvalidDate
    ELSE InvalidDate

(***************************************************************************)
(* moment(dateStr, "YYYY-MM-DD-HH-mm-ss").toDate(), forgiving (non-strict) *)
(* mode: each token of the format is matched against what is left of the   *)
(* input (a number token takes the first run of digits, 1 to 4 for YYYY    *)
(* and 1 to 2 for the others; a "-" takes the first "-"), input before the *)
(* match is skipped, and a token without a match is left out.  The result  *)
(* is invalid when no number token matched or a field overflows.           *)
(***************************************************************************)
MomentTokens == <<"YYYY", "-", "MM", "-", "DD", "-", "HH", "-", "mm", "-", "ss">>

\* the place of a number token's field in the array [Y, M, D, h, m, s]
TokenField(tok) ==
    CASE tok = "YYYY" -> 1 [] tok = "MM" -> 2 [] tok = "DD" -> 3
      [] tok = "HH" -> 4 [] tok = "mm" -> 5 [] tok = "ss" -> 6

\* the index of the first digit of s, 0 when there is none
RECURSIVE FirstDigit(_, _)
FirstDigit(s, i) ==
    IF i > Len(s) THEN 0
    ELSE IF IsDigit(Char(s, i)) THEN i ELSE FirstDigit(s, i + 1)

\* a parsed year: two digits stand for 1969..2068
YearValue(digits) ==
    LET v == DigitsValue(digits)
    IN  IF Len(digits) = 2 THEN (IF v > 68 THEN 1900 + v ELSE 2000 + v) ELSE v

\* the fields parsed from str by the tokens from the k-th on; -1: not parsed
RECURSIVE MomentScan(_, _, _)
MomentScan(str, k, a) ==
    IF k > Len(MomentTokens) THEN a
    ELSE LET tok == MomentTokens[k] IN
         IF tok = "-"
         THEN LET i == IndexOf(str, "-")
              IN  MomentScan(IF i = 0 THEN str ELSE SubSeq(str, i + 1, Len(str)), k + 1, a)
         ELSE LET i == FirstDigit(str, 1)
                  n == IF i = 0 THEN 0
                       ELSE DigitRun(SubSeq(str, i, Len(str)), IF tok = "YYYY" THEN 4 ELSE 2)
                  parsedInput == SubSeq(str, i, i + n - 1)
              IN  IF i = 0 THEN MomentScan(str, k + 1, a)
                  ELSE MomentScan(SubSeq(str, i + n, Len(str)), k + 1,
                                  [a EXCEPT ![TokenField(tok)] =
                                      IF tok = "YYYY" THEN YearValue(parsedInput)
                                      ELSE DigitsValue(parsedInput)])

\* the Date of the parsed fields read as local time, tz minutes east of UTC
ParseMoment(dateStr, tz) ==
    LET a  == MomentScan(dateStr, 1, <<-1, -1, -1, -1, -1, -1>>)
        y  == a[1]
        mo == IF a[2] = -1 THEN 1 ELSE a[2]
        d  == IF a[3] = -1 THEN 1 ELSE a[3]
        h  == IF a[4] = -1 THEN 0 ELSE a[4]
        mi == IF a[5] = -1 THEN 0 ELSE a[5]
        sc == IF a[6] = -1 THEN 0 ELSE a[6]
    IN  IF \A i \in 1..6 : a[i] = -1 THEN InvalidDate
        ELSE IF mo \notin 1..12 \/ d \notin 1..DaysInMonth(y, mo)
                \/ h > 24 \/ (h = 24 /\ (mi # 0 \/ sc # 0)) \/ mi > 59 \/ sc > 59
        THEN InvalidDate
        ELSE DateAt(DaysFromCivil(y, mo, d) * SecondsPerDay
                    + h * 3600 + mi * 60 + sc - tz * 60, 0)

\* moment(date).format('YYYY-MM-DD'): the local calendar day
FormatDay(date, tz) ==
    IF ~date.valid THEN "Invalid date"
    ELSE LET f == Fields(date.s, tz)
         IN  Pad4(IntToString(f.year)) \o "-" \o PadStart2(IntToString(f.month))
             \o "-" \o PadStart2(IntToString(f.day))

(***************************************************************************)
(* The plugin: settings, note path, collector test and report.             *)
(***************************************************************************)
Variants == {"nested", "flat"}

\* DEFAULT_SETTINGS
storageFolder == "expenses"
accounts == <<"Cash", "Bank", "Credit Card">>
categories == <<"Uncategorized">>

Range(seq) == {seq[i] : i \in 1..Len(seq)}

\* addTransaction: the timestamp of the filename, the UTC day of toISOString
\* followed by the local time of day of toTimeString
Timestamp(now, tz) ==
    Split(toISOString(now), "T")[1] \o "-"
    \o ReplaceAll(Split(toTimeString(now, tz), " ")[1], ":", "-")

NoteFilename(now, tz, type) == Timestamp(now, tz) \o "_" \o type \o ".md"

\* a folderPath of year and month only
NoteFolderPathByMonth(variant, root, now, tz) ==
    IF variant = "nested"
    THEN LET year  == IntToString(getFullYear(now, tz))
             month == PadStart2(IntToString(getMonth(now, tz) + 1))
         IN  root \o "/" \o year \o "/" \o year \o "-" \o month
    ELSE root

\* addTransaction: folderPath
NoteFolderPath(variant, root, now, tz) ==
    IF variant = "nested"
    THEN LET year  == IntToString(getFullYear(now, tz))
             month == PadStart2(IntToString(getMonth(now, tz) + 1))
             day   == PadStart2(IntToString(getDate(now, tz)))
         IN  root \o "/" \o year \o "/" \o year \o "-" \o month
             \o "/" \o year \o "-" \o month \o "-" \o day
    ELSE root

NotePath(variant, root, now, tz, type) ==
    NoteFolderPath(variant, root, now, tz) \o "/" \o NoteFilename(now, tz, type)

\* createReport: reportFilename
ReportPath(root, startDate, endDate) ==
    root \o "/report_" \o startDate \o "_" \o endDate \o ".md"

\* TFile.basename: the last segment of the path without its extension
LastIndexFrom(s, ch, i) ==
    LET hits == {j \in 1..i : Char(s, j) = ch}
    IN  IF hits = {} THEN 0 ELSE CHOOSE j \in hits : \A k \in hits : k <= j

Basename(path) ==
    LET name == SubSeq(path, LastIndexFrom(path, "/", Len(path)) + 1, Len(path))
        dot  == LastIndexFrom(name, ".", Len(name))
    IN  IF dot <= 1 THEN name ELSE SubSeq(name, 1, dot - 1)

\* the collector's test of a path: whether the file is looked at, and the
\* Date parsed from its name
\*   nested: path.startsWith(folderPath), four parts below it, parts[3]
\*   flat:   path.startsWith(folderPath), file.basename
Selected(variant, path, folderPath) ==
    /\ StartsWith(path, folderPath)
    /\ variant = "nested" =>
          Len(Split(ReplaceFirst(path, folderPath \o "/", ""), "/")) = 4

FileDate(variant, path, folderPath, tz) ==
    IF variant = "nested"
    THEN LET parts == Split(ReplaceFirst(path, folderPath \o "/", ""), "/")
         IN  ParseMoment(Split(parts[4], "_")[1], tz)
    ELSE ParseMoment(Split(Basename(path), "_")[1], tz)

\* the range test with > and < in place of >= and <=
InRangeExclusive(date, startDate, endDate) ==
    /\ DateGe(date, startDate) /\ ~DateLe(date, startDate)
    /\ DateLe(date, endDate) /\ ~DateGe(date, endDate)

\* date >= startDate && date <= endDate
InRange(date, startDate, endDate) == DateGe(date, startDate) /\ DateLe(date, endDate)

\* the loop body without the range test and without the `if (transaction)`
\* test: every file the collector looks at is pushed
CollectFileUntested(variant, path, content, folderPath, startDate, endDate, tz) ==
    IF ~Selected(variant, path, folderPath) THEN <<>>
    ELSE LET transaction == parseTransaction(content)
         IN  <<[type |-> transaction.type, amount |-> transaction.amount,
                description |-> transaction.description,
                account |-> transaction.account,
                category |-> transaction.category,
                date |-> FileDate(variant, path, folderPath, tz),
                filename |-> ReplaceFirst(path, folderPath \o "/", "")]>>

\* the loop body without the `if (transaction)` test: what parseTransaction
\* returned is pushed as it is
CollectFileNoNullTest(variant, path, content, folderPath, startDate, endDate, tz) ==
    IF ~Selected(variant, path, folderPath) THEN <<>>
    ELSE LET date == FileDate(variant, path, folderPath, tz)
             transaction == parseTransaction(content)
         IN  IF InRange(date, startDate, endDate)
             THEN <<[type |-> transaction.type, amount |-> transaction.amount,
                     description |-> transaction.description,
                     account |-> transaction.account,
                     category |-> transaction.category,
                     date |-> date,
                     filename |-> ReplaceFirst(path, folderPath \o "/", "")]>>
             ELSE <<>>

\* the transactions one file adds to the collector's list: none, or the parsed
\* record with its date and its filename
CollectFile(variant, path, content, folderPath, startDate, endDate, tz) ==
    IF ~Selected(variant, path, folderPath) THEN <<>>
    ELSE LET date == FileDate(variant, path, folderPath, tz)
             transaction == parseTransaction(content)
         IN  IF InRange(date, startDate, endDate) /\ ~transaction.null
             THEN <<[type |-> transaction.type, amount |-> transaction.amount,
                     description |-> transaction.description,
                     account |-> transaction.account,
                     category |-> transaction.category,
                     date |-> date,
                     filename |-> ReplaceFirst(path, folderPath \o "/", "")]>>
             ELSE <<>>

\* the filter with a comparison that ignores case
AccountTransactionsAnyCase(transactions, account) ==
    SelectSeq(transactions, LAMBDA tx : ToLowerCase(tx.account) = ToLowerCase(account))

\* transactions.filter(tx => tx.account === account)
AccountTransactions(transactions, account) ==
    SelectSeq(transactions, LAMBDA tx : tx.account = account)

\* one row of an account's table: the six cells
ReportRow(tx, tz) ==
    [date        |-> FormatDay(tx.date, tz),
     description |-> tx.description,
     category    |-> tx.category,
     income      |-> IF tx.type = "income" THEN NumToString(tx.amount) ELSE "",
     expense     |-> IF tx.type = "expense" THEN NumToString(NumNeg(tx.amount)) ELSE "",
     link        |-> "[[" \o tx.filename \o "]]"]

\* totalIncome and totalExpense after the first n transactions of the account
RECURSIVE TotalOf(_, _, _)
TotalOf(txs, type, n) ==
    IF n = 0 THEN Num(0)
    ELSE IF txs[n].type = type THEN NumAdd(TotalOf(txs, type, n - 1), txs[n].amount)
    ELSE TotalOf(txs, type, n - 1)

\* one account's section: its rows and its totals
AccountSection(transactions, account, tz) ==
    LET accountTransactions == AccountTransactions(transactions, account)
    IN  [account      |-> account,
         rows         |-> [i \in 1..Len(accountTransactions) |->
                              ReportRow(accountTransactions[i], tz)],
         totalIncome  |-> TotalOf(accountTransactions, "income", Len(accountTransactions)),
         totalExpense |-> TotalOf(accountTransactions, "expense", Len(accountTransactions))]

\* the sections generateReport emits: the configured accounts with at least
\* one transaction, in the order of the configuration
RECURSIVE ReportSections(_, _, _, _)
ReportSections(transactions, accts, tz, i) ==
    IF i > Len(accts) THEN <<>>
    ELSE (IF Len(AccountTransactions(transactions, accts[i])) > 0
          THEN <<AccountSection(transactions, accts[i], tz)>> ELSE <<>>)
         \o ReportSections(transactions, accts, tz, i + 1)

RowLine(r) ==
    "| " \o r.date \o " | " \o r.description \o " | " \o r.category \o " | "
    \o r.income \o " | " \o r.expense \o " | " \o r.link \o " |"

\* the strings one section pushes onto `report`
RECURSIVE RowLines(_, _, _)
RowLines(rows, i, suffix) ==
    IF i > Len(rows) THEN <<>>
    ELSE <<RowLine(rows[i]) \o suffix>> \o RowLines(rows, i + 1, suffix)

SectionLines(variant, sec) ==
    IF variant = "nested"
    THEN <<"## Account: " \o sec.account,
           "| Date | Description | Category | Income | Expense | Link |",
           "|------|-------------|----------|--------|---------|------|">>
         \o RowLines(sec.rows, 1, "")
         \o <<"|      |             | Total    | " \o NumToString(sec.totalIncome)
              \o " | " \o NumToString(sec.totalExpense) \o " |      |">>
    ELSE <<"## Account: " \o sec.account \o "\n",
           "| Date | Description | Category | Income | Expense | Link |\n",
           "|------|-------------|----------|--------|---------|------|\n">>
         \o RowLines(sec.rows, 1, "\n")
         \o <<"|      |             |          | **Total Income** | **Total Expense** |      |\n",
              "|      |             |          | " \o NumToString(sec.totalIncome)
              \o " | " \o NumToString(sec.totalExpense) \o " |      |\n\n">>

RECURSIVE AllLines(_, _, _)
AllLines(variant, secs, i) ==
    IF i > Len(secs) THEN <<>>
    ELSE SectionLines(variant, secs[i]) \o AllLines(variant, secs, i + 1)

\* Array.prototype.join
RECURSIVE Join(_, _, _)
Join(strs, sep, i) ==
    IF i > Len(strs) THEN ""
    ELSE strs[i] \o (IF i < Len(strs) THEN sep ELSE "") \o Join(strs, sep, i + 1)

generateReport(variant, transactions, accts, tz) ==
    Join(AllLines(variant, ReportSections(transactions, accts, tz, 1), 1),
         IF variant = "nested" THEN "\n" ELSE "", 1)

(***************************************************************************)
(* The state.                                                              *)
(*   variant  which of the two variants of the plugin runs                 *)
(*   tz       the host's time zone, minutes east of UTC                    *)
(*   tick     the host's clock at the last new Date(): the place of its    *)
(*            reading in ClockReadings, 0 before the first                 *)
(*   files    the vault's markdown documents in the order they were made:  *)
(*            path, content, and `now`, the instant the command that wrote *)
(*            the document took from new Date() (none for a report)        *)
(*   folders  the vault's folders                                          *)
(*   started  how many commands the user has run                           *)
(*   cmds     the command invocations in flight, each an async call of     *)
(*            addTransaction or createReport with its position and locals; *)
(*            an invocation that has returned leaves its slot idle         *)
(*   notice   the Notice the last step showed, if any, with the command    *)
(*            that showed it                                               *)
(*   eval     the pure function under evaluation in CodecSpec/ReportSpec   *)
(***************************************************************************)
VARIABLES variant, tz, tick, files, folders, started, cmds, notice, eval

vars == <<variant, tz, tick, files, folders, started, cmds, notice, eval>>

\* bounds of the model: the commands the user runs, and the notes of a
\* report under ReportSpec
MaxCmds == 2
MaxNotes == 2

\* the invocations that may be in flight at a time
Slots == {1, 2}

TzOffsets == {0, 120}

\* Date.UTC, in seconds
Utc(y, m, d, h, mi, sc) ==
    DaysFromCivil(y, m, d) * SecondsPerDay + h * 3600 + mi * 60 + sc

\* what new Date() may return, in the order of time: half a second and
\* twenty-three hours after 2024-01-01T00:00:00.000Z
ClockReadings ==
    <<DateAt(Utc(2024, 1, 1, 0, 0, 0), 500),
      DateAt(Utc(2024, 1, 1, 23, 0, 0), 0)>>

Readings == 1..Len(ClockReadings)

\* what the user may enter in the dialogs
AmountInputs == {"10"}
DescriptionInputs == {"coffee"}
AccountInputs == {accounts[1]}
CategoryInputs == {categories[1]}
DateInputs == {"2024-01-01", ""}

Ops == {"expense", "income", "report"}

\* a slot without an invocation
Idle ==
    [op |-> "none", pc |-> "idle", submitted |-> FALSE,
     folderPath |-> "", filePath |-> "", content |-> "", now |-> InvalidDate,
     i |-> 0, listing |-> <<>>, transactions |-> <<>>,
     startDate |-> InvalidDate, endDate |-> InvalidDate]

\* an invocation awaiting its dialog
NewCmd(op) == [Idle EXCEPT !.op = op, !.pc = "dialog"]

NoNotice == [text |-> "none", op |-> "none", submitted |-> FALSE, outcome |-> "none"]

Active == {k \in Slots : cmds[k].pc # "idle"}

Paths(fs) == [i \in 1..Len(fs) |-> fs[i].path]
Exists(fs, path) == \E i \in 1..Len(fs) : fs[i].path = path

\* vault.read: the content of the document at path
ReadContent(fs, path) == fs[CHOOSE i \in 1..Len(fs) : fs[i].path = path].content

\* the plugin loaded into an empty vault
Loaded ==
    /\ tick = 0
    /\ files = <<>>
    /\ folders = {}
    /\ started = 0
    /\ cmds = [k \in Slots |-> Idle]
    /\ notice = NoNotice

Init ==
    /\ variant \in Variants
    /\ tz \in TzOffsets
    /\ Loaded
    /\ eval = [stage |-> "none"]

\* addCommands: the user runs one of the three commands; its callback opens
\* the dialog and awaits it
StartCommand(op) ==
    /\ started < MaxCmds
    /\ Active # Slots
    /\ LET k == CHOOSE s \in Slots \ Active : \A r \in Slots \ Active : s <= r
       IN  cmds' = [cmds EXCEPT ![k] = NewCmd(op)]
    /\ started' = started + 1
    /\ notice' = NoNotice
    /\ UNCHANGED <<variant, tz, tick, files, folders, eval>>

\* addTransaction from `if (result)` to the first createFolder call, with now
\* the value of new Date(); a field the dialog never set is undefined and
\* prints as "undefined"
AfterTransactionModal(c, now, amount, description, account, category, submitted) ==
    LET folderPath == NoteFolderPath(variant, storageFolder, now, tz)
    IN  [c EXCEPT !.pc = "folder", !.submitted = submitted, !.now = now,
                  !.folderPath = folderPath,
                  !.filePath = folderPath \o "/" \o NoteFilename(now, tz, c.op),
                  !.content = NoteContent(c.op, amount, description, account, category),
                  !.i = 1]

\* TransactionModal: a click on Add sets the four fields of result and closes;
\* the clock reads t
SubmitTransaction(k, t, amount, description, account, category) ==
    /\ cmds[k].pc = "dialog"
    /\ cmds[k].op \in {"expense", "income"}
    /\ t >= tick
    /\ tick' = t
    /\ cmds' = [cmds EXCEPT ![k] =
                   AfterTransactionModal(@, ClockReadings[t], Trim(amount), Trim(description),
                                         account, category, TRUE)]
    /\ notice' = NoNotice
    /\ UNCHANGED <<variant, tz, files, folders, started, eval>>

\* ensureFolderExists: how many createFolder calls there are, and the path of
\* the i-th (nested: one per prefix of the path; flat: the path itself)
FolderCalls(folderPath) ==
    IF variant = "nested" THEN Len(Split(folderPath, "/")) ELSE 1

SubPath(folderPath, i) ==
    IF variant = "nested"
    THEN Join(SubSeq(Split(folderPath, "/"), 1, i), "/", 1)
    ELSE folderPath

\* an ensureFolderExists whose catch block ends the command
AbortOnFolderError(c, calls, threw) ==
    IF threw THEN Idle
    ELSE IF c.i < calls THEN [c EXCEPT !.i = @ + 1] ELSE [c EXCEPT !.pc = "create"]

\* ensureFolderExists after a createFolder call returned or threw: the catch
\* block is empty, so either way the loop goes on to the next call, or
\* returns to addTransaction and its vault.create
AfterCreateFolder(c, calls, threw) ==
    IF c.i < calls THEN [c EXCEPT !.i = @ + 1] ELSE [c EXCEPT !.pc = "create"]

\* one awaited vault.createFolder of ensureFolderExists, which throws for a
\* folder that exists
CreateFolder(k) ==
    /\ cmds[k].pc = "folder"
    /\ folders' = folders \cup {SubPath(cmds[k].folderPath, cmds[k].i)}
    /\ cmds' = [cmds EXCEPT ![k] =
                   AfterCreateFolder(@, FolderCalls(@.folderPath),
                                     SubPath(@.folderPath, @.i) \in folders)]
    /\ notice' = NoNotice
    /\ UNCHANGED <<variant, tz, tick, files, started, eval>>

\* a create that writes over the document at the path when it exists
VaultCreateOverwrite(fs, path, content, now, ok) ==
    IF ok THEN Append(fs, [path |-> path, content |-> content, now |-> now])
    ELSE [i \in 1..Len(fs) |->
             IF fs[i].path = path THEN [fs[i] EXCEPT !.content = content] ELSE fs[i]]

\* vault.create: the documents after a call that succeeded (ok) or threw
VaultCreate(fs, path, content, now, ok) ==
    IF ok THEN Append(fs, [path |-> path, content |-> content, now |-> now]) ELSE fs

\* the success Notice whatever vault.create did
NoticeAlwaysSuccess(ok) == "success"

\* the Notice after vault.create: the try block's or the catch block's
NoticeAfterCreate(ok) == IF ok THEN "success" ELSE "failure"

\* the awaited vault.create of a command, which throws when the path exists
\* or the store fails (err), and the Notice that follows; the command returns
CreateDocument(k, err) ==
    LET c == cmds[k]
        exists == Exists(files, c.filePath)
    IN  /\ files' = VaultCreate(files, c.filePath, c.content, c.now, ~exists /\ ~err)
        /\ notice' = [text |-> NoticeAfterCreate(~exists /\ ~err), op |-> c.op,
                      submitted |-> c.submitted,
                      outcome |-> IF exists THEN "exists"
                                  ELSE IF err THEN "error" ELSE "created"]
        /\ cmds' = [cmds EXCEPT ![k] = Idle]

\* addTransaction: vault.create of the note
CreateNote(k, err) ==
    /\ cmds[k].pc = "create"
    /\ cmds[k].op \in {"expense", "income"}
    /\ CreateDocument(k, err)
    /\ UNCHANGED <<variant, tz, tick, folders, started, eval>>

\* createReport: vault.create of the report
CreateReportFile(k, err) ==
    /\ cmds[k].pc = "create"
    /\ cmds[k].op = "report"
    /\ CreateDocument(k, err)
    /\ UNCHANGED <<variant, tz, tick, folders, started, eval>>

\* whether the collector awaits vault.read for a path: the nested variant
\* reads the files in range, the flat one every file under the prefix
NeedsRead(path, c) ==
    /\ Selected(variant, path, c.folderPath)
    /\ variant = "nested" =>
          InRange(FileDate(variant, path, c.folderPath, tz), c.startDate, c.endDate)

RECURSIVE NextRead(_, _)
NextRead(c, j) ==
    IF j > Len(c.listing) THEN j
    ELSE IF NeedsRead(c.listing[j], c) THEN j ELSE NextRead(c, j + 1)

\* the collector's loop from file j to its next awaited read, or past the
\* last file to generateReport and the vault.create call of createReport
AfterScan(c, j) ==
    LET n == NextRead(c, j)
    IN  IF n <= Len(c.listing) THEN [c EXCEPT !.pc = "read", !.i = n]
        ELSE [c EXCEPT !.pc = "create", !.i = n,
                       !.content = generateReport(variant, c.transactions, accounts, tz)]

\* createReport from `if (result)` to the first awaited read
AfterReportModal(c, startDate, endDate, submitted) ==
    AfterScan([c EXCEPT !.submitted = submitted,
                        !.folderPath = storageFolder,
                        !.filePath = ReportPath(storageFolder, startDate, endDate),
                        !.startDate = NewDate(startDate),
                        !.endDate = NewDate(endDate),
                        !.listing = Paths(files)], 1)

\* ReportModal: a click on Create.  nested: sets result and closes when both
\* dates are given, else shows a Notice and stays open; flat: sets the two
\* fields of result, empty or not, and closes
SubmitReport(k, startDate, endDate) ==
    /\ cmds[k].pc = "dialog"
    /\ cmds[k].op = "report"
    /\ IF variant = "nested" /\ (startDate = "" \/ endDate = "")
       THEN /\ notice' = [NoNotice EXCEPT !.text = "dates", !.op = "report"]
            /\ UNCHANGED cmds
       ELSE /\ notice' = NoNotice
            /\ cmds' = [cmds EXCEPT ![k] = AfterReportModal(@, startDate, endDate, TRUE)]
    /\ UNCHANGED <<variant, tz, tick, files, folders, started, eval>>

\* a TransactionModal is closed without a click on Add: onClose resolves the
\* promise with result as it was constructed, {}; the clock reads t
CloseTransactionModal(k, t) ==
    /\ cmds[k].pc = "dialog"
    /\ cmds[k].op \in {"expense", "income"}
    /\ t >= tick
    /\ tick' = t
    /\ cmds' = [cmds EXCEPT ![k] =
                   AfterTransactionModal(@, ClockReadings[t], "undefined", "undefined",
                                         "undefined", "undefined", FALSE)]
    /\ notice' = NoNotice
    /\ UNCHANGED <<variant, tz, files, folders, started, eval>>

\* a ReportModal is closed without a click on Create: onClose resolves the
\* promise with result as it was constructed, null (nested) or {} (flat)
CloseReportModal(k) ==
    /\ cmds[k].pc = "dialog"
    /\ cmds[k].op = "report"
    /\ cmds' = [cmds EXCEPT ![k] =
                   IF variant = "nested" THEN Idle
                   ELSE AfterReportModal(@, "undefined", "undefined", FALSE)]
    /\ notice' = NoNotice
    /\ UNCHANGED <<variant, tz, tick, files, folders, started, eval>>

\* the collector's awaited vault.read of file i returns: the file is parsed
\* and pushed, and the loop goes on to the next awaited read
ReadFile(k) ==
    /\ cmds[k].pc = "read"
    /\ LET c == cmds[k]
           path == c.listing[c.i]
           found == CollectFile(variant, path, ReadContent(files, path), c.folderPath,
                                c.startDate, c.endDate, tz)
       IN  cmds' = [cmds EXCEPT ![k] =
                       AfterScan([c EXCEPT !.transactions = @ \o found], c.i + 1)]
    /\ notice' = NoNotice
    /\ UNCHANGED <<variant, tz, tick, files, folders, started, eval>>

Next ==
    \/ \E op \in Ops : StartCommand(op)
    \/ \E k \in Slots :
          \/ \E t \in Readings, amount \in AmountInputs,
                description \in DescriptionInputs,
                account \in AccountInputs, category \in CategoryInputs :
                SubmitTransaction(k, t, amount, description, account, category)
          \/ \E t \in Readings : CloseTransactionModal(k, t)
          \/ \E startDate \in DateInputs, endDate \in DateInputs :
                SubmitReport(k, startDate, endDate)
          \/ CloseReportModal(k)
          \/ CreateFolder(k)
          \/ ReadFile(k)
          \/ \E err \in BOOLEAN : CreateNote(k, err) \/ CreateReportFile(k, err)

Spec == Init /\ [][Next]_vars

(***************************************************************************)
(* CodecSpec: the transaction codec on its own.  eval holds a transaction  *)
(* to encode, or a text put together from some of the five marker lines,   *)
(* then the text, then what parseTransaction makes of it.                  *)
(***************************************************************************)
Markers == <<"type", "amount", "description", "account", "category">>

\* the valid transactions: kind, a non-negative amount, a description of one
\* line, an account and a category
ValidTransactions ==
    [type : {"expense", "income"}, amount : {0, 5, 10, 42},
     description : {"coffee", "", "- Amount: 7", "## Rent", "a - Description: b"},
     account : {"Cash", "Credit Card", ""},
     category : {"Uncategorized", "Food"}]

NoInput ==
    [type |-> "", amount |-> 0, description |-> "", account |-> "", category |-> ""]

\* the values of the amount line of a text: a number, and two that are none
AmountValues == {"12", "abc", ""}

MarkerLine(m, value) ==
    CASE m = "type" -> "## Expense"
      [] m = "amount" -> "- Amount: " \o value
      [] m = "description" -> "- Description: coffee"
      [] m = "account" -> "- Account: Cash"
      [] m = "category" -> "- Category: Food"

\* the text with the marker lines of `present`, in the order of the codec
RECURSIVE MarkerLines(_, _, _)
MarkerLines(present, value, i) ==
    IF i > Len(Markers) THEN <<>>
    ELSE (IF Markers[i] \in present THEN <<MarkerLine(Markers[i], value)>> ELSE <<>>)
         \o MarkerLines(present, value, i + 1)

MarkerText(present, value) == Join(MarkerLines(present, value, 1), "\n", 1)

CodecInputs ==
    {[stage |-> "tx", origin |-> "tx", tx |-> t, present |-> {}, value |-> "",
      text |-> "", parsed |-> NoTransaction] : t \in ValidTransactions}
    \cup
    {[stage |-> "text", origin |-> "raw", tx |-> NoInput, present |-> ps, value |-> v,
      text |-> MarkerText(ps, v), parsed |-> NoTransaction] :
        ps \in SUBSET Range(Markers), v \in AmountValues}

CodecInit ==
    /\ variant = "nested"
    /\ tz = 0
    /\ Loaded
    /\ eval \in CodecInputs

\* addTransaction's content for the transaction, the amount as the dialog's
\* number input gives it
EncodeTransaction ==
    /\ eval.stage = "tx"
    /\ eval' = [eval EXCEPT !.stage = "text",
                            !.text = NoteContent(eval.tx.type, IntToString(eval.tx.amount),
                                                 eval.tx.description, eval.tx.account,
                                                 eval.tx.category)]
    /\ UNCHANGED <<variant, tz, tick, files, folders, started, cmds, notice>>

DecodeText ==
    /\ eval.stage = "text"
    /\ eval' = [eval EXCEPT !.stage = "parsed", !.parsed = parseTransaction(eval.text)]
    /\ UNCHANGED <<variant, tz, tick, files, folders, started, cmds, notice>>

CodecNext == EncodeTransaction \/ DecodeText

CodecSpec == CodecInit /\ [][CodecNext]_vars

(***************************************************************************)
(* ReportSpec: the collector and generateReport on notes written by        *)
(* addTransaction.  eval holds the notes' inputs and the configured        *)
(* accounts, then the collected transactions, then the report.             *)
(***************************************************************************)
NoteInputs ==
    {[type |-> "expense", amount |-> "10", account |-> "Cash"],
     [type |-> "expense", amount |-> "5", account |-> "Cash"],
     [type |-> "income", amount |-> "100", account |-> "Bank"],
     [type |-> "income", amount |-> "7", account |-> "cash"]}

AccountConfigs ==
    {<<"Cash", "Bank">>, <<"Bank", "Cash">>, <<"Credit Card", "Cash">>,
     <<"cash", "Cash", "Bank">>}

\* the sequences over S of length at most n
SeqsUpTo(S, n) == UNION {[1..m -> S] : m \in 0..n}

ReportInit ==
    /\ variant \in Variants
    /\ tz = 0
    /\ Loaded
    /\ eval \in {[stage |-> "notes", notes |-> ns, accts |-> as,
                  transactions |-> <<>>, sections |-> <<>>, report |-> ""] :
                    ns \in SeqsUpTo(NoteInputs, MaxNotes), as \in AccountConfigs}

\* the i-th note as addTransaction writes it, one clock reading after another
NoteOf(note, i) ==
    LET now == ClockReadings[((i - 1) % Len(ClockReadings)) + 1]
    IN  [path |-> NotePath(variant, storageFolder, now, tz, note.type),
         content |-> NoteContent(note.type, note.amount, "coffee", note.account,
                                 categories[1])]

\* getTransactionsInRange over the notes from the i-th on
RECURSIVE CollectNotesFrom(_, _, _, _)
CollectNotesFrom(notes, i, startDate, endDate) ==
    IF i > Len(notes) THEN <<>>
    ELSE LET n == NoteOf(notes[i], i)
         IN  CollectFile(variant, n.path, n.content, storageFolder, startDate, endDate, tz)
             \o CollectNotesFrom(notes, i + 1, startDate, endDate)

CollectNotes ==
    /\ eval.stage = "notes"
    /\ eval' = [eval EXCEPT !.stage = "collected",
                            !.transactions =
                                CollectNotesFrom(eval.notes, 1, NewDate("2023-12-31"),
                                                 NewDate("2024-01-02"))]
    /\ UNCHANGED <<variant, tz, tick, files, folders, started, cmds, notice>>

RenderReport ==
    /\ eval.stage = "collected"
    /\ eval' = [eval EXCEPT !.stage = "rendered",
                            !.sections = ReportSections(eval.transactions, eval.accts, tz, 1),
                            !.report = generateReport(variant, eval.transactions,
                                                      eval.accts, tz)]
    /\ UNCHANGED <<variant, tz, tick, files, folders, started, cmds, notice>>

ReportNext == CollectNotes \/ RenderReport

ReportSpec == ReportInit /\ [][ReportNext]_vars

(***************************************************************************)
(* VaultSpec: createReport in a vault that holds documents when the plugin *)
(* is loaded: notes of the plugin, markdown notes of other origin, and     *)
(* notes in a folder whose name begins with the name of the storage        *)
(* folder.  The user runs create-report only.                              *)
(***************************************************************************)

\* a document nothing of this plugin wrote in this session
Doc(path, content) == [path |-> path, content |-> content, now |-> InvalidDate]

\* the folder addTransaction puts the notes of 2024-01-01 in, below root
DayFolder(v, root) ==
    IF v = "nested" THEN root \o "/2024/2024-01/2024-01-01" ELSE root

\* a folder next to the storage folder whose path passes startsWith, at the
\* depth the nested collector asks for
SiblingFolder(v) ==
    IF v = "nested" THEN storageFolder \o "-old/2024-01/2024-01-01"
    ELSE storageFolder \o "-old"

ForeignContent == "# Meeting\nagenda\n- [ ] minutes"

\* a note of 2024-01-01 00:00:00 and one of 2024-01-01 08:30:00
MidnightNote(v) ==
    Doc(DayFolder(v, storageFolder) \o "/2024-01-01-00-00-00_expense.md",
        NoteContent("expense", "10", "coffee", "Cash", "Uncategorized"))

LaterNote(v) ==
    Doc(DayFolder(v, storageFolder) \o "/2024-01-01-08-30-00_income.md",
        NoteContent("income", "42", "salary", "Bank", "Uncategorized"))

\* markdown notes without marker lines: one named like a note of the plugin,
\* one not
ForeignDated(v) ==
    Doc(DayFolder(v, storageFolder) \o "/2024-01-01-00-00-00_meeting.md", ForeignContent)

ForeignPlain(v) == Doc(DayFolder(v, storageFolder) \o "/readme.md", ForeignContent)

\* a copy of a note in the folder next to the storage folder
SiblingNote(v) ==
    Doc(SiblingFolder(v) \o "/2024-01-01-00-00-00_income.md",
        NoteContent("income", "5", "tea", "Cash", "Food"))

\* what vault.getMarkdownFiles may return when the plugin is loaded
Vaults(v) ==
    {<<ForeignDated(v), MidnightNote(v), ForeignPlain(v)>>,
     <<MidnightNote(v), ForeignPlain(v), LaterNote(v)>>,
     <<SiblingNote(v), MidnightNote(v)>>}

\* the dates the user may enter for a report of these vaults
VaultStartDates == {"2024-01-01"}
VaultEndDates == {"2024-01-01", "2024-01-02"}

VaultInit ==
    /\ variant \in Variants
    /\ tz = 0
    /\ tick = 0
    /\ files \in Vaults(variant)
    /\ folders = {}
    /\ started = 0
    /\ cmds = [k \in Slots |-> Idle]
    /\ notice = NoNotice
    /\ eval = [stage |-> "none"]

VaultNext ==
    \/ StartCommand("report")
    \/ \E k \in Slots :
          \/ \E startDate \in VaultStartDates, endDate \in VaultEndDates :
                SubmitReport(k, startDate, endDate)
          \/ CloseReportModal(k)
          \/ ReadFile(k)
          \/ \E err \in BOOLEAN : CreateReportFile(k, err)

VaultSpec == VaultInit /\ [][VaultNext]_vars

(***************************************************************************)
(* The properties.                                                         *)
(***************************************************************************)

\* C1 (CodecSpec): parseTransaction of the body addTransaction builds for a
\* valid transaction gives back its type, description, account and category,
\* and its amount, negated for an expense.
CodecRoundTrip ==
    (eval.stage = "parsed" /\ eval.origin = "tx") =>
        eval.parsed =
            [null        |-> FALSE,
             type        |-> eval.tx.type,
             amount      |-> Num(IF eval.tx.type = "expense"
                                 THEN -eval.tx.amount ELSE eval.tx.amount),
             description |-> eval.tx.description,
             account     |-> eval.tx.account,
             category    |-> eval.tx.category]

\* an expense of 42 whose description looks like an amount line was encoded
\* and parsed
CodecRoundTripWitness ==
    /\ eval.stage = "parsed" /\ eval.origin = "tx"
    /\ eval.tx.type = "expense" /\ eval.tx.amount = 42
    /\ eval.tx.description = "- Amount: 7"

\* a string of digits
IsNumeric(value) == Len(value) > 0 /\ DigitRun(value, Len(value)) = Len(value)

\* C2 (CodecSpec): parseTransaction returns null for a text that lacks one of
\* the five marker lines and for a text whose amount is not a number, and
\* never returns a record whose amount is not a number.
DecodeAllOrNothing ==
    (eval.stage = "parsed" /\ eval.origin = "raw") =>
        /\ (eval.present # Range(Markers) \/ ~IsNumeric(eval.value)) => eval.parsed.null
        /\ ~eval.parsed.null => ~eval.parsed.amount.nan

\* a < b on valid Dates
DateBefore(a, b) == a.s < b.s \/ (a.s = b.s /\ a.ms < b.ms)

\* the collector of command c has pushed a transaction for the file at path
Collected(c, path) ==
    \E i \in 1..Len(c.transactions) :
        c.transactions[i].filename = ReplaceFirst(path, c.folderPath \o "/", "")

\* C3 (Spec): of the files a createReport has gone through, one whose name
\* gives a timestamp before startDate or after endDate is not collected, and
\* one whose timestamp is in [startDate, endDate], ends included, is
\* collected if it decodes.
CollectorRangeInclusive ==
    \A k \in Slots :
        LET c == cmds[k] IN
        (c.op = "report" /\ c.pc \in {"read", "create"}
         /\ c.startDate.valid /\ c.endDate.valid) =>
            \A j \in 1..(c.i - 1) :
                LET path == c.listing[j] IN
                Selected(variant, path, c.folderPath) =>
                    LET t == FileDate(variant, path, c.folderPath, tz) IN
                    t.valid =>
                        /\ (DateBefore(t, c.startDate) \/ DateBefore(c.endDate, t))
                              => ~Collected(c, path)
                        /\ (~DateBefore(t, c.startDate) /\ ~DateBefore(c.endDate, t)
                            /\ ~parseTransaction(ReadContent(files, path)).null)
                              => Collected(c, path)

\* a createReport has gone through all files and collected a note whose
\* timestamp is both startDate and endDate
CollectorRangeWitness ==
    \E k \in Slots :
        LET c == cmds[k] IN
        /\ c.op = "report" /\ c.pc = "create"
        /\ c.startDate.valid /\ c.endDate.valid
        /\ \E i \in 1..Len(c.transactions) :
              c.transactions[i].date = c.startDate /\ c.transactions[i].date = c.endDate

\* the file was written by addTransaction
IsNote(f) == f.now.valid

\* C4 (Spec): the timestamp the collector parses from the filename of a note
\* is the instant the note was created at, cut to whole seconds.
TimestampRoundTrip ==
    \A i \in 1..Len(files) :
        IsNote(files[i]) =>
            FileDate(variant, files[i].path, storageFolder, tz) = DateAt(files[i].now.s, 0)

\* the value of a cell of the Income or Expense column, 0 for a blank one
CellValue(cell) == IF cell = "" THEN Num(0) ELSE parseFloat(cell)

RECURSIVE SumCells(_, _, _)
SumCells(rows, column, n) ==
    IF n = 0 THEN Num(0)
    ELSE NumAdd(SumCells(rows, column, n - 1), CellValue(rows[n][column]))

\* C5 (ReportSpec): in every section of the report the totals row's Income is
\* the sum of the rows' Income cells and its Expense the sum of the rows'
\* Expense cells.
TotalsMatchRows ==
    eval.stage = "rendered" =>
        \A i \in 1..Len(eval.sections) :
            LET sec == eval.sections[i] IN
            /\ sec.totalIncome = SumCells(sec.rows, "income", Len(sec.rows))
            /\ sec.totalExpense = SumCells(sec.rows, "expense", Len(sec.rows))

\* the positions of the line ends of a text, and where its lines start
NewlinesOf(text) == {j \in 1..Len(text) : Char(text, j) = "\n"}
LineStarts(text) == {1} \cup {j + 1 : j \in NewlinesOf(text)}

\* the last position of the line that starts at a
LineEnd(text, a) ==
    LET after == {j \in NewlinesOf(text) : j >= a}
    IN  IF after = {} THEN Len(text)
        ELSE (CHOOSE j \in after : \A k \in after : j <= k) - 1

\* where the section headers of a report start
HeaderStarts(report) ==
    {a \in LineStarts(report) :
        a + 11 <= Len(report) /\ SubSeq(report, a, a + 11) = "## Account: "}

\* the accounts of the section headers of a report, in their order
RECURSIVE HeadersOf(_, _)
HeadersOf(report, starts) ==
    IF starts = {} THEN <<>>
    ELSE LET a == CHOOSE x \in starts : \A y \in starts : x <= y
         IN  <<SubSeq(report, a + 12, LineEnd(report, a))>>
             \o HeadersOf(report, starts \ {a})

HeaderAccounts(report) == HeadersOf(report, HeaderStarts(report))

\* some transaction has exactly this account
HasTransaction(transactions, account) ==
    \E i \in 1..Len(transactions) : transactions[i].account = account

\* C6 (ReportSpec): the report has one section for each configured account
\* that some transaction names exactly, none for the others, in the order of
\* the configuration.
SectionsFollowConfig ==
    eval.stage = "rendered" =>
        HeaderAccounts(eval.report) =
            SelectSeq(eval.accts, LAMBDA a : HasTransaction(eval.transactions, a))

\* a report of two sections whose configuration has a third account, one
\* that differs from a transaction's account in case only
SectionsFollowConfigWitness ==
    /\ eval.stage = "rendered"
    /\ Len(HeaderAccounts(eval.report)) = 2
    /\ Len(eval.accts) = 3
    /\ \E i \in 1..Len(eval.transactions) : eval.transactions[i].account = "Cash"

\* C7 (Spec): a command whose dialog was closed without a submit is skipped:
\* it goes on to no folder, read or create call and shows no Notice.
CancelSkipsCommand ==
    /\ \A k \in Slots : cmds[k].pc \in {"folder", "read", "create"} => cmds[k].submitted
    /\ notice.text \in {"success", "failure"} => notice.submitted

\* C8 (Spec): no step removes or changes a document of the vault.
NotesImmutable ==
    [][/\ Len(files') >= Len(files)
       /\ \A i \in 1..Len(files) : files'[i] = files[i]]_vars

\* a report was written to a vault that holds a note, and the note is as
\* addTransaction wrote it
NotesImmutableWitness ==
    \E i, j \in 1..Len(files) :
        /\ IsNote(files[i]) /\ ~IsNote(files[j])
        /\ ~parseTransaction(files[i].content).null

\* C9 (Spec): a command whose vault.create fails shows the failure Notice,
\* leaves the documents as they were and returns without another attempt.
WriteFailureReported ==
    [][\A k \in Slots :
          (cmds[k].pc = "create" /\ cmds'[k] # cmds[k]
           /\ notice'.outcome \in {"exists", "error"}) =>
              /\ notice'.text = "failure"
              /\ files' = files
              /\ cmds'[k].pc = "idle"]_vars

\* an addTransaction failed on the path of an existing note and showed the
\* failure Notice
WriteFailureWitness ==
    /\ notice.outcome = "exists"
    /\ notice.text = "failure"
    /\ notice.op \in {"expense", "income"}
    /\ \E i \in 1..Len(files) : IsNote(files[i])

\* C10 (Spec): at most one command is in flight at a time.
CommandsSerialized == Cardinality(Active) <= 1

\* C11 (VaultSpec): a createReport that has gone through a vault of notes and
\* of markdown documents without marker lines has collected no document that
\* does not decode, and has collected every note under the storage folder
\* that decodes and whose timestamp is in the range.
ForeignNotesSkipped ==
    \A k \in Slots :
        LET c == cmds[k] IN
        (c.op = "report" /\ c.pc = "create") =>
            \A j \in 1..Len(c.listing) :
                LET path == c.listing[j]
                    decodes == ~parseTransaction(ReadContent(files, path)).null
                IN  /\ ~decodes => ~Collected(c, path)
                    /\ (decodes /\ c.startDate.valid /\ c.endDate.valid
                        /\ StartsWith(path, storageFolder \o "/")
                        /\ Selected(variant, path, c.folderPath)
                        /\ ~DateBefore(FileDate(variant, path, c.folderPath, tz), c.startDate)
                        /\ ~DateBefore(c.endDate, FileDate(variant, path, c.folderPath, tz)))
                          => Collected(c, path)

\* a createReport went through a document without marker lines, named like a
\* note in range, and collected the note that came after it
ForeignNotesSkippedWitness ==
    \E k \in Slots :
        LET c == cmds[k] IN
        /\ c.op = "report" /\ c.pc = "create"
        /\ \E i, j \in 1..Len(c.listing) :
              /\ i < j
              /\ c.listing[i] = ForeignDated(variant).path
              /\ c.listing[j] = MidnightNote(variant).path
              /\ Collected(c, c.listing[j])

\* how many of the collected transactions come from the file at path
TimesCollected(c, path) ==
    Cardinality({i \in 1..Len(c.transactions) :
                    c.transactions[i].filename = ReplaceFirst(path, c.folderPath \o "/", "")})

\* the document the last successful vault.create wrote
LastCreated == files[Len(files)]

\* C12 (Spec): every note, when addTransaction has created it, passes the
\* collector's prefix and depth tests and has a name that gives a valid
\* timestamp (paths never change afterwards), and a createReport that has
\* gone through the vault holds exactly one transaction for each note it
\* listed whose timestamp is in its range.
NotesAreCollected ==
    /\ (notice.outcome = "created" /\ notice.op \in {"expense", "income"}) =>
          /\ IsNote(LastCreated)
          /\ StartsWith(LastCreated.path, storageFolder \o "/")
          /\ Selected(variant, LastCreated.path, storageFolder)
          /\ FileDate(variant, LastCreated.path, storageFolder, tz).valid
    /\ \A k \in Slots :
          LET c == cmds[k] IN
          (c.op = "report" /\ c.pc = "create" /\ c.startDate.valid /\ c.endDate.valid) =>
              \A i \in 1..Len(files) :
                  LET t == FileDate(variant, files[i].path, storageFolder, tz) IN
                  (/\ IsNote(files[i])
                   /\ files[i].path \in Range(c.listing)
                   /\ ~DateBefore(t, c.startDate) /\ ~DateBefore(c.endDate, t))
                      => TimesCollected(c, files[i].path) = 1

\* in a host two hours east of UTC a createReport has listed a note and
\* collected it once
NotesAreCollectedWitness ==
    /\ tz = 120
    /\ \E k \in Slots, i \in 1..Len(files) :
          /\ cmds[k].op = "report" /\ cmds[k].pc = "create"
          /\ IsNote(files[i])
          /\ files[i].path \in Range(cmds[k].listing)
          /\ TimesCollected(cmds[k], files[i].path) = 1

\* the folders of a folderPath that ensureFolderExists calls createFolder for
FoldersOf(folderPath) == {SubPath(folderPath, i) : i \in 1..FolderCalls(folderPath)}

\* C13 (Spec): a createFolder call of addTransaction, for a folder that
\* exists or not, leaves the folder in the vault with those that were there
\* and is followed by the next createFolder call or, after the last one, by
\* the create of the note, by which time all folders of the path exist.
FolderCreationIdempotent ==
    [][\A k \in Slots :
          (cmds[k].pc = "folder" /\ cmds'[k] # cmds[k]) =>
              /\ folders' = folders \cup {SubPath(cmds[k].folderPath, cmds[k].i)}
              /\ \/ /\ cmds[k].i < FolderCalls(cmds[k].folderPath)
                    /\ cmds'[k] = [cmds[k] EXCEPT !.i = @ + 1]
                 \/ /\ cmds[k].i = FolderCalls(cmds[k].folderPath)
                    /\ cmds'[k] = [cmds[k] EXCEPT !.pc = "create"]
                    /\ FoldersOf(cmds[k].folderPath) \subseteq folders']_vars

\* an addTransaction is about to create its note in a folder that holds a
\* note of an earlier addTransaction
FolderCreationWitness ==
    \E k \in Slots, i \in 1..Len(files) :
        /\ cmds[k].op \in {"expense", "income"} /\ cmds[k].pc = "create"
        /\ IsNote(files[i])
        /\ files[i].path # cmds[k].filePath
        /\ StartsWith(files[i].path, cmds[k].folderPath \o "/")
        /\ DateBefore(files[i].now, cmds[k].now)

\* C14 (VaultSpec): the filename of every collected transaction is the path
\* of its document relative to the storage folder: the storage folder, '/'
\* and the filename make the path of a document the collector went through.
FilenameIsRelativePath ==
    \A k \in Slots :
        \A i \in 1..Len(cmds[k].transactions) :
            storageFolder \o "/" \o cmds[k].transactions[i].filename
                \in Range(cmds[k].listing)

\* the document was written by createReport
IsReport(f) == ~IsNote(f) /\ StartsWith(f.path, storageFolder \o "/report_")

\* C15 (Spec): no createReport holds a transaction collected from a document
\* that a createReport wrote.
ReportsNotCollected ==
    \A k \in Slots :
        \A i \in 1..Len(files) :
            IsReport(files[i]) => TimesCollected(cmds[k], files[i].path) = 0

\* a createReport of the flat variant, which reads every document under the
\* storage folder, has gone through a vault that holds a report
ReportsNotCollectedWitness ==
    /\ variant = "flat"
    /\ \E k \in Slots, i \in 1..Len(files) :
          /\ cmds[k].op = "report" /\ cmds[k].pc = "create"
          /\ IsReport(files[i])
          /\ files[i].path \in Range(cmds[k].listing)

=============================================================================
